---- MODULE Spec2Model ----
(***************************************************************************)
(* A model of the to-do list application: the IndexedDB task store         *)
(* (src/db/indexedDB.ts), the App view model (App.tsx) and the             *)
(* presentation components (AddTaskForm, EditTaskForm, TaskList).          *)
(*                                                                         *)
(* Spec is the application: the user's events, the asynchronous handlers   *)
(* they start and the store calls those handlers await.  SpecAvail is the  *)
(* application while no store call rejects.  SpecStore is a client that    *)
(* calls the exported store functions directly, one call at a time, with   *)
(* arbitrary arguments.                                                    *)
(***************************************************************************)
EXTENDS Integers, Sequences, FiniteSets, Bags, TLC

(***************************************************************************)
(* Bounds of the model.                                                    *)
(***************************************************************************)
\* ids a caller may name, and the last key the key generator may hand out
MaxId == 2
\* handlers in flight at the same time
MaxPending == 2
\* completed mutation calls of the direct client (SpecStore)
MaxOps == 3

(***************************************************************************)
(* Strings.  A title is a sequence of characters.                          *)
(***************************************************************************)
\* what the user types into a form: empty, blank, or a title with a
\* leading blank
Titles == { <<>>, <<" ">>, <<" ", "A">> }

\* the titles a direct caller of the store passes
AnyTitles == Titles \cup { <<"a">> }

SearchTerms == { <<>>, <<"A">>, <<" ", "a">>, <<"b">> }

\* String.prototype.toLowerCase, one character
LowerChar(c) == IF c = "A" THEN "a" ELSE IF c = "B" THEN "b" ELSE c

\* String.prototype.toLowerCase
ToLowerCase(s) == [i \in 1..Len(s) |-> LowerChar(s[i])]

IsSpace(c) == c = " "

RECURSIVE TrimStart(_)
TrimStart(s) ==
  IF s # <<>> /\ IsSpace(Head(s)) THEN TrimStart(Tail(s)) ELSE s

RECURSIVE TrimEnd(_)
TrimEnd(s) ==
  IF s # <<>> /\ IsSpace(s[Len(s)]) THEN TrimEnd(SubSeq(s, 1, Len(s) - 1)) ELSE s

\* String.prototype.trim
Trim(s) == TrimEnd(TrimStart(s))

\* the truthiness of title alone, without the trim
Truthy(s) == s # <<>>

\* the truthiness of title.trim() in the forms' handleSubmit
TrimTruthy(s) == Trim(s) # <<>>

\* String.prototype.includes
Includes(s, t) ==
  \E i \in 0..(Len(s) - Len(t)) : SubSeq(s, i + 1, i + Len(t)) = t

(***************************************************************************)
(* The storage engine: one database "tasksDB" with one object store        *)
(* "tasks", keyPath "id", autoIncrement.  A database value is              *)
(*   version : 0 when the database does not exist yet, else 1              *)
(*   records : the object store, a function from key to title              *)
(*   keyGen  : the key generator's current number                          *)
(***************************************************************************)
NoRecords == [k \in {} |-> <<>>]

NewDB == [version |-> 0, records |-> NoRecords, keyGen |-> 1]

\* an initDB whose upgrade runs at every open and makes the store anew
InitDBUpgradeAlways(db) ==
  [version |-> 1, records |-> NoRecords, keyGen |-> 1]

\* openDB(dbName, 1, {upgrade}): upgrade runs only when the version rises
InitDB(db) ==
  IF db.version < 1
    THEN [version |-> 1, records |-> NoRecords, keyGen |-> 1]
    ELSE db

\* a generator that hands out the key after the largest one in the store
NextKeyReuse(db) ==
  IF DOMAIN db.records = {} THEN 1
  ELSE (CHOOSE k \in DOMAIN db.records : \A j \in DOMAIN db.records : j <= k) + 1

\* the key the generator hands to a record stored without an id
NextKey(db) == db.keyGen

\* db.add(storeName, {title}): ConstraintError when the key is taken
DbAdd(db, title) ==
  LET key == NextKey(db) IN
  IF key \in DOMAIN db.records
    THEN [db |-> db, ok |-> FALSE, value |-> 0]
    ELSE [db |-> [db EXCEPT !.records = (key :> title) @@ db.records,
                            !.keyGen = key + 1],
          ok |-> TRUE, value |-> key]

\* a put that stores the record under a key of the generator instead of
\* the record's own id
DbPutNewKey(db, id, title) ==
  [db |-> [db EXCEPT !.records = (db.keyGen :> title) @@ db.records,
                     !.keyGen = db.keyGen + 1],
   ok |-> TRUE, value |-> db.keyGen]

\* a put that leaves a record that is already there as it is
DbPutKeep(db, id, title) ==
  [db |-> [db EXCEPT !.records = db.records @@ (id :> title),
                     !.keyGen = IF id >= db.keyGen THEN id + 1 ELSE db.keyGen],
   ok |-> TRUE, value |-> id]

\* a put that fails when there is no record with the key
DbPutStrict(db, id, title) ==
  IF id \in DOMAIN db.records
    THEN [db |-> [db EXCEPT !.records = (id :> title) @@ db.records],
          ok |-> TRUE, value |-> id]
    ELSE [db |-> db, ok |-> FALSE, value |-> 0]

\* db.put(storeName, {id, title}): insert or replace; an explicit key at or
\* above the generator's number moves the generator past it
DbPut(db, id, title) ==
  [db |-> [db EXCEPT !.records = (id :> title) @@ db.records,
                     !.keyGen = IF id >= db.keyGen THEN id + 1 ELSE db.keyGen],
   ok |-> TRUE, value |-> id]

\* a delete that empties the object store
DbDeleteClear(db, id) ==
  [db |-> [db EXCEPT !.records = NoRecords], ok |-> TRUE, value |-> 0]

\* a delete that fails when there is no record with the key
DbDeleteStrict(db, id) ==
  IF id \in DOMAIN db.records
    THEN [db |-> [db EXCEPT !.records = [k \in DOMAIN db.records \ {id} |-> db.records[k]]],
          ok |-> TRUE, value |-> 0]
    ELSE [db |-> db, ok |-> FALSE, value |-> 0]

\* db.delete(storeName, id): removes the record when there is one
DbDelete(db, id) ==
  [db |-> [db EXCEPT !.records = [k \in DOMAIN db.records \ {id} |-> db.records[k]]],
   ok |-> TRUE, value |-> 0]

\* db.getAll(storeName): every record, in ascending key order
RECURSIVE RecordsFrom(_, _)
RecordsFrom(records, keys) ==
  IF keys = {} THEN <<>>
  ELSE LET k == CHOOSE x \in keys : \A y \in keys : x <= y
       IN <<[id |-> k, title |-> records[k]]>> \o RecordsFrom(records, keys \ {k})

DbGetAll(db) == RecordsFrom(db.records, DOMAIN db.records)

(***************************************************************************)
(* The exported functions of src/db/indexedDB.ts.  Each opens the database *)
(* (initDB) and then runs one request; avail = FALSE is an openDB that     *)
(* rejects (storage denied), which leaves the database as it was.          *)
(***************************************************************************)
Rejected(db) == [db |-> db, ok |-> FALSE, value |-> 0]

\* an addTask that stores the trimmed title
addTaskTrimmed(db, title, avail) ==
  IF avail THEN DbAdd(InitDB(db), Trim(title)) ELSE Rejected(db)

addTask(db, title, avail) ==
  IF avail THEN DbAdd(InitDB(db), title) ELSE Rejected(db)

deleteTask(db, id, avail) ==
  IF avail THEN DbDelete(InitDB(db), id) ELSE Rejected(db)

updateTask(db, id, title, avail) ==
  IF avail THEN DbPut(InitDB(db), id, title) ELSE Rejected(db)

getAllTasks(db, avail) ==
  IF avail THEN [db |-> InitDB(db), ok |-> TRUE, value |-> DbGetAll(InitDB(db))]
  ELSE [db |-> db, ok |-> FALSE, value |-> <<>>]

(***************************************************************************)
(* State.                                                                  *)
(***************************************************************************)
VARIABLES
  db,           \* the IndexedDB database "tasksDB"
  tasks,        \* App: const [tasks, setTasks] = useState<Task[]>([])
  editingTask,  \* TaskList: useState<Task | null>(null); NoTask is null
  addTitle,     \* AddTaskForm: const [title, setTitle] = useState("")
  editForm,     \* EditTaskForm, when one is mounted: its title state
  pending,      \* the async handlers suspended at an await (a bag)
  lastEvent,    \* the event or handler step that led to this state
  everStored,   \* every key that has held a record at some time
  initial,      \* the records of the store when the page was loaded
  history,      \* SpecStore: the completed mutation calls, in order
  returned,     \* SpecStore: the outcome of the latest call
  roundTrip     \* SpecStore: progress of add, getAll, update, getAll

vars == <<db, tasks, editingTask, addTitle, editForm, pending, lastEvent,
          everStored, initial, history, returned, roundTrip>>

uiVars == <<tasks, editingTask, addTitle, editForm, pending, lastEvent>>

clientVars == <<history, returned, roundTrip>>

\* null of useState<Task | null>: no record has key 0
NoTask == [id |-> 0, title |-> <<>>]

\* no EditTaskForm is mounted
NoForm == [mounted |-> FALSE, title |-> <<>>]

Event(ev, id) == [ev |-> ev, id |-> id]

\* a handler suspended at its await
Handler(kind, id, title, phase, res) ==
  [kind |-> kind, id |-> id, title |-> title, phase |-> phase, res |-> res]

\* a handler that makes its rejected call again
AbandonRetry(bag, h) == bag

\* the handlers in flight after the awaited call of h rejects: the async
\* function ends there (no catch, no retry)
Abandon(bag, h) == bag (-) SetToBag({h})

\* fetchTasks right after its call of getAllTasks
FetchCall == Handler("fetch", 0, <<>>, "call", <<>>)

InFlight == BagCardinality(pending)

Waiting(kind, phase) ==
  {h \in BagToSet(pending) : h.kind = kind /\ h.phase = phase}

Ids(ts) == {ts[i].id : i \in 1..Len(ts)}

TaskWithId(ts, id) == ts[CHOOSE i \in 1..Len(ts) : ts[i].id = id]

\* the databases a page load may find: none yet, or one left by an earlier
\* session
InitialDBs ==
  { NewDB,
    [version |-> 1, records |-> (1 :> <<"a">>), keyGen |-> 2] }

(***************************************************************************)
(* TaskList's render: the list items that show the edit form, and the      *)
(* EditTaskForm instance after a render.  The form of a list item keeps    *)
(* its state while that item goes on showing it; a form that appears is    *)
(* mounted with useState(task.title).                                      *)
(***************************************************************************)
\* a render that shows the form in every item while a task is being edited
ShowsFormAll(ts, editing, i) == editing # NoTask

\* editingTask?.id === task.id, for the i-th task
ShowsForm(ts, editing, i) == editing # NoTask /\ editing.id = ts[i].id

EditForms(ts, editing) == {i \in 1..Len(ts) : ShowsForm(ts, editing, i)}

FormMounted(ts, editing) == EditForms(ts, editing) # {}

Rerender(oldTasks, oldEditing, oldForm, newTasks, newEditing) ==
  IF ~FormMounted(newTasks, newEditing) THEN NoForm
  ELSE IF FormMounted(oldTasks, oldEditing) /\ oldEditing.id = newEditing.id
         THEN oldForm
         ELSE [mounted |-> TRUE, title |-> TaskWithId(newTasks, newEditing.id).title]

\* the tasks TaskList renders: tasks.map(...)
Rendered(ts) == ts

\* TaskList as the README documents it: tasks.filter((task) =>
\* task.title.toLowerCase().includes(searchTerm.toLowerCase()))
filteredTasks(ts, searchTerm) ==
  SelectSeq(ts, LAMBDA task : Includes(ToLowerCase(task.title), ToLowerCase(searchTerm)))

\* the outcome of a call of the direct client: the function called, its
\* arguments, whether the promise was fulfilled, and the id or the list it
\* was fulfilled with
Outcome(op, id, title, ok, key, all) ==
  [op |-> op, id |-> id, title |-> title, ok |-> ok, key |-> key, all |-> all]

NoCall == Outcome("none", 0, <<>>, TRUE, 0, <<>>)

NoRoundTrip == [pc |-> 0, id |-> 0, title |-> <<>>, title2 |-> <<>>]

Init ==
  /\ db \in InitialDBs
  /\ tasks = <<>>
  /\ editingTask = NoTask
  /\ addTitle = <<>>
  /\ editForm = NoForm
  /\ pending = SetToBag({FetchCall})
  /\ lastEvent = Event("mount", 0)
  /\ everStored = DOMAIN db.records
  /\ initial = db.records
  /\ history = <<>>
  /\ returned = NoCall
  /\ roundTrip = NoRoundTrip

(***************************************************************************)
(* AddTaskForm                                                             *)
(***************************************************************************)
\* onChange={(e) => setTitle(e.target.value)}
SetAddTitle(t) ==
  /\ t # addTitle
  /\ addTitle' = t
  /\ lastEvent' = Event("setAddTitle", 0)
  /\ UNCHANGED <<db, tasks, editingTask, editForm, pending, everStored,
                 initial, clientVars>>

\* keys left for the adds in flight and one more
KeysLeft == db.keyGen + Cardinality(Waiting("add", "call")) <= MaxId

\* handleSubmit up to its await: a blank title stops it
AddSubmit ==
  /\ IF TrimTruthy(addTitle)
       THEN /\ InFlight < MaxPending
            /\ KeysLeft
            /\ pending' = pending (+) SetToBag({Handler("add", 0, addTitle, "call", <<>>)})
            /\ lastEvent' = Event("addSubmit", 0)
       ELSE /\ pending' = pending
            /\ lastEvent' = Event("addSubmitBlank", 0)
  /\ UNCHANGED <<db, tasks, editingTask, addTitle, editForm, everStored,
                 initial, clientVars>>

\* the awaited addTask settles; a rejection ends handleSubmit
RunAddTask(h, avail) ==
  /\ h \in Waiting("add", "call")
  /\ LET r == addTask(db, h.title, avail) IN
       /\ db' = r.db
       /\ everStored' = everStored \cup DOMAIN r.db.records
       /\ IF r.ok
            THEN /\ pending' = (pending (-) SetToBag({h}))
                                 (+) SetToBag({Handler("add", 0, h.title, "done", <<>>)})
                 /\ lastEvent' = Event("addTaskDone", r.value)
            ELSE /\ pending' = Abandon(pending, h)
                 /\ lastEvent' = Event("addTaskFailed", 0)
  /\ UNCHANGED <<tasks, editingTask, addTitle, editForm, initial, clientVars>>

\* handleSubmit after its await: setTitle(""); onTaskAdded()
ResumeAdd(h) ==
  /\ h \in Waiting("add", "done")
  /\ addTitle' = <<>>
  /\ pending' = (pending (-) SetToBag({h})) (+) SetToBag({FetchCall})
  /\ lastEvent' = Event("addResumed", h.id)
  /\ UNCHANGED <<db, tasks, editingTask, editForm, everStored, initial,
                 clientVars>>

(***************************************************************************)
(* TaskList                                                                *)
(***************************************************************************)
\* the read view of a task: its Edit and Delete buttons are rendered
ReadView(i) == i \in 1..Len(Rendered(tasks)) /\ ~ShowsForm(tasks, editingTask, i)

\* <button onClick={() => setEditingTask(task)}>Edit</button>
ClickEdit(i) ==
  /\ ReadView(i)
  /\ editingTask' = tasks[i]
  /\ editForm' = Rerender(tasks, editingTask, editForm, tasks, tasks[i])
  /\ lastEvent' = Event(IF editForm.mounted THEN "clickEditOther" ELSE "clickEdit",
                        tasks[i].id)
  /\ UNCHANGED <<db, tasks, addTitle, pending, everStored, initial, clientVars>>

\* <button onClick={() => handleDelete(task.id)}>Delete</button>, up to the
\* await of handleDelete
ClickDelete(i) ==
  /\ ReadView(i)
  /\ InFlight < MaxPending
  /\ pending' = pending (+) SetToBag({Handler("delete", tasks[i].id, <<>>, "call", <<>>)})
  /\ lastEvent' = Event("clickDelete", tasks[i].id)
  /\ UNCHANGED <<db, tasks, editingTask, addTitle, editForm, everStored,
                 initial, clientVars>>

\* the awaited deleteTask settles; a rejection ends handleDelete
RunDeleteTask(h, avail) ==
  /\ h \in Waiting("delete", "call")
  /\ LET r == deleteTask(db, h.id, avail) IN
       /\ db' = r.db
       /\ everStored' = everStored \cup DOMAIN r.db.records
       /\ IF r.ok
            THEN /\ pending' = (pending (-) SetToBag({h}))
                                 (+) SetToBag({[h EXCEPT !.phase = "done"]})
                 /\ lastEvent' = Event("deleteTaskDone", h.id)
            ELSE /\ pending' = Abandon(pending, h)
                 /\ lastEvent' = Event("deleteTaskFailed", h.id)
  /\ UNCHANGED <<tasks, editingTask, addTitle, editForm, initial, clientVars>>

\* handleDelete after its await: onTaskDeleted()
ResumeDelete(h) ==
  /\ h \in Waiting("delete", "done")
  /\ pending' = (pending (-) SetToBag({h})) (+) SetToBag({FetchCall})
  /\ lastEvent' = Event("deleteResumed", h.id)
  /\ UNCHANGED <<db, tasks, editingTask, addTitle, editForm, everStored,
                 initial, clientVars>>

(***************************************************************************)
(* EditTaskForm, mounted in the list item of the task being edited         *)
(***************************************************************************)
\* onChange={(e) => setTitle(e.target.value)}
SetEditTitle(t) ==
  /\ editForm.mounted
  /\ t # editForm.title
  /\ editForm' = [editForm EXCEPT !.title = t]
  /\ lastEvent' = Event("setEditTitle", 0)
  /\ UNCHANGED <<db, tasks, editingTask, addTitle, pending, everStored,
                 initial, clientVars>>

\* a Cancel that also saves what was typed
ClickCancelSave ==
  /\ editForm.mounted
  /\ editingTask' = NoTask
  /\ editForm' = Rerender(tasks, editingTask, editForm, tasks, NoTask)
  /\ pending' = pending (+) SetToBag({Handler("update", editingTask.id, editForm.title, "call", <<>>)})
  /\ lastEvent' = Event("clickCancel", editingTask.id)
  /\ UNCHANGED <<db, tasks, addTitle, everStored, initial, clientVars>>

\* onCancel={() => setEditingTask(null)}
ClickCancel ==
  /\ editForm.mounted
  /\ editingTask' = NoTask
  /\ editForm' = Rerender(tasks, editingTask, editForm, tasks, NoTask)
  /\ lastEvent' = Event("clickCancel", editingTask.id)
  /\ UNCHANGED <<db, tasks, addTitle, pending, everStored, initial, clientVars>>

\* handleSubmit up to its await: a blank title stops it; task is the prop
\* of the mounted form
EditSubmit ==
  /\ editForm.mounted
  /\ LET task == TaskWithId(tasks, editingTask.id) IN
     IF TrimTruthy(editForm.title)
       THEN /\ InFlight < MaxPending
            /\ pending' = pending (+) SetToBag({Handler("update", task.id, editForm.title, "call", <<>>)})
            /\ lastEvent' = Event("editSubmit", task.id)
       ELSE /\ pending' = pending
            /\ lastEvent' = Event("editSubmitBlank", task.id)
  /\ UNCHANGED <<db, tasks, editingTask, addTitle, editForm, everStored,
                 initial, clientVars>>

\* the awaited updateTask settles; a rejection ends handleSubmit
RunUpdateTask(h, avail) ==
  /\ h \in Waiting("update", "call")
  /\ LET r == updateTask(db, h.id, h.title, avail) IN
       /\ db' = r.db
       /\ everStored' = everStored \cup DOMAIN r.db.records
       /\ IF r.ok
            THEN /\ pending' = (pending (-) SetToBag({h}))
                                 (+) SetToBag({[h EXCEPT !.phase = "done"]})
                 /\ lastEvent' = Event("updateTaskDone", h.id)
            ELSE /\ pending' = Abandon(pending, h)
                 /\ lastEvent' = Event("updateTaskFailed", h.id)
  /\ UNCHANGED <<tasks, editingTask, addTitle, editForm, initial, clientVars>>

\* a handleSubmit that also leaves edit mode after its update
ResumeUpdateClose(h) ==
  /\ h \in Waiting("update", "done")
  /\ pending' = (pending (-) SetToBag({h})) (+) SetToBag({FetchCall})
  /\ editingTask' = NoTask
  /\ editForm' = Rerender(tasks, editingTask, editForm, tasks, NoTask)
  /\ lastEvent' = Event("updateResumed", h.id)
  /\ UNCHANGED <<db, tasks, addTitle, everStored, initial, clientVars>>

\* handleSubmit after its await: onTaskUpdated()
ResumeUpdate(h) ==
  /\ h \in Waiting("update", "done")
  /\ pending' = (pending (-) SetToBag({h})) (+) SetToBag({FetchCall})
  /\ lastEvent' = Event("updateResumed", h.id)
  /\ UNCHANGED <<db, tasks, editingTask, addTitle, editForm, everStored,
                 initial, clientVars>>

(***************************************************************************)
(* App.fetchTasks                                                          *)
(***************************************************************************)
\* a fetchTasks that catches the rejection and empties the snapshot
ClearedOnRejection(old) == <<>>

\* fetchTasks has no catch: the rejected await throws past setTasks and the
\* snapshot stays
OnRejection(old) == old

\* the awaited getAllTasks settles; a rejection ends fetchTasks
RunGetAllTasks(h, avail) ==
  /\ h \in Waiting("fetch", "call")
  /\ LET r == getAllTasks(db, avail) IN
       /\ db' = r.db
       /\ everStored' = everStored \cup DOMAIN r.db.records
       /\ IF r.ok
            THEN /\ pending' = (pending (-) SetToBag({h}))
                                 (+) SetToBag({[h EXCEPT !.phase = "done", !.res = r.value]})
                 /\ lastEvent' = Event("getAllTasksDone", 0)
                 /\ tasks' = tasks
            ELSE /\ pending' = Abandon(pending, h)
                 /\ lastEvent' = Event("getAllTasksFailed", 0)
                 /\ tasks' = OnRejection(tasks)
  /\ editForm' = Rerender(tasks, editingTask, editForm, tasks', editingTask)
  /\ UNCHANGED <<editingTask, addTitle, initial, clientVars>>

\* setTasks(allTasks), with allTasks merged into the previous snapshot
SetTasksMerge(old, allTasks) ==
  old \o SelectSeq(allTasks, LAMBDA t : t.id \notin Ids(old))

\* setTasks with allTasks appended to the previous snapshot
SetTasksAppend(old, allTasks) == old \o allTasks

\* a setTasks that keeps the task objects it holds for the ids it is given
SetTasksReuse(old, allTasks) ==
  [i \in 1..Len(allTasks) |->
     IF allTasks[i].id \in Ids(old) THEN TaskWithId(old, allTasks[i].id)
     ELSE allTasks[i]]

\* setTasks(allTasks): the new state of tasks
SetTasks(old, allTasks) == allTasks

\* fetchTasks after its await: setTasks(allTasks), and the render it causes
ResumeFetch(h) ==
  /\ h \in Waiting("fetch", "done")
  /\ tasks' = SetTasks(tasks, h.res)
  /\ editForm' = Rerender(tasks, editingTask, editForm, tasks', editingTask)
  /\ pending' = pending (-) SetToBag({h})
  /\ lastEvent' = Event("setTasks", 0)
  /\ UNCHANGED <<db, editingTask, addTitle, everStored, initial, clientVars>>

Next ==
  \/ \E t \in Titles : SetAddTitle(t)
  \/ AddSubmit
  \/ \E h \in BagToSet(pending), avail \in BOOLEAN : RunAddTask(h, avail)
  \/ \E h \in BagToSet(pending) : ResumeAdd(h)
  \/ \E i \in 1..Len(tasks) : ClickEdit(i)
  \/ \E i \in 1..Len(tasks) : ClickDelete(i)
  \/ \E h \in BagToSet(pending), avail \in BOOLEAN : RunDeleteTask(h, avail)
  \/ \E h \in BagToSet(pending) : ResumeDelete(h)
  \/ \E t \in Titles : SetEditTitle(t)
  \/ ClickCancel
  \/ EditSubmit
  \/ \E h \in BagToSet(pending), avail \in BOOLEAN : RunUpdateTask(h, avail)
  \/ \E h \in BagToSet(pending) : ResumeUpdate(h)
  \/ \E h \in BagToSet(pending), avail \in BOOLEAN : RunGetAllTasks(h, avail)
  \/ \E h \in BagToSet(pending) : ResumeFetch(h)

Spec == Init /\ [][Next]_vars

\* the application while the storage is available: no call rejects
NextAvail ==
  \/ \E t \in Titles : SetAddTitle(t)
  \/ AddSubmit
  \/ \E h \in BagToSet(pending) : RunAddTask(h, TRUE)
  \/ \E h \in BagToSet(pending) : ResumeAdd(h)
  \/ \E i \in 1..Len(tasks) : ClickEdit(i)
  \/ \E i \in 1..Len(tasks) : ClickDelete(i)
  \/ \E h \in BagToSet(pending) : RunDeleteTask(h, TRUE)
  \/ \E h \in BagToSet(pending) : ResumeDelete(h)
  \/ \E t \in Titles : SetEditTitle(t)
  \/ ClickCancel
  \/ EditSubmit
  \/ \E h \in BagToSet(pending) : RunUpdateTask(h, TRUE)
  \/ \E h \in BagToSet(pending) : ResumeUpdate(h)
  \/ \E h \in BagToSet(pending) : RunGetAllTasks(h, TRUE)
  \/ \E h \in BagToSet(pending) : ResumeFetch(h)

SpecAvail == Init /\ [][NextAvail]_vars

(***************************************************************************)
(* SpecStore: a client of src/db/indexedDB.ts that awaits each call before *)
(* it makes the next, with the storage available.  history lists its       *)
(* fulfilled mutation calls; roundTrip follows the calls add, getAll,      *)
(* update of the added id, getAll when they are made one after the other.  *)
(***************************************************************************)
Call(op, id, title) == [op |-> op, id |-> id, title |-> title]

InitStore ==
  /\ db \in InitialDBs
  /\ tasks = <<>>
  /\ editingTask = NoTask
  /\ addTitle = <<>>
  /\ editForm = NoForm
  /\ pending = EmptyBag
  /\ lastEvent = Event("none", 0)
  /\ everStored = DOMAIN db.records
  /\ initial = db.records
  /\ history = <<>>
  /\ returned = NoCall
  /\ roundTrip = NoRoundTrip

CallAddTask(title) ==
  /\ Len(history) < MaxOps
  /\ LET r == addTask(db, title, TRUE) IN
       /\ db' = r.db
       /\ everStored' = everStored \cup DOMAIN r.db.records
       /\ returned' = Outcome("addTask", 0, title, r.ok, r.value, <<>>)
       /\ history' = IF r.ok THEN Append(history, Call("addTask", r.value, title))
                     ELSE history
       /\ roundTrip' = IF r.ok
                         THEN [pc |-> 1, id |-> r.value, title |-> title, title2 |-> <<>>]
                         ELSE NoRoundTrip
  /\ UNCHANGED <<uiVars, initial>>

CallUpdateTask(id, title) ==
  /\ Len(history) < MaxOps
  /\ LET r == updateTask(db, id, title, TRUE) IN
       /\ db' = r.db
       /\ everStored' = everStored \cup DOMAIN r.db.records
       /\ returned' = Outcome("updateTask", id, title, r.ok, r.value, <<>>)
       /\ history' = IF r.ok THEN Append(history, Call("updateTask", id, title))
                     ELSE history
       /\ roundTrip' = IF r.ok /\ roundTrip.pc = 2 /\ roundTrip.id = id
                         THEN [roundTrip EXCEPT !.pc = 3, !.title2 = title]
                         ELSE NoRoundTrip
  /\ UNCHANGED <<uiVars, initial>>

CallDeleteTask(id) ==
  /\ Len(history) < MaxOps
  /\ LET r == deleteTask(db, id, TRUE) IN
       /\ db' = r.db
       /\ everStored' = everStored \cup DOMAIN r.db.records
       /\ returned' = Outcome("deleteTask", id, <<>>, r.ok, 0, <<>>)
       /\ history' = IF r.ok THEN Append(history, Call("deleteTask", id, <<>>))
                     ELSE history
       /\ roundTrip' = NoRoundTrip
  /\ UNCHANGED <<uiVars, initial>>

\* a call of initDB alone
CallInitDB ==
  /\ db' = InitDB(db)
  /\ everStored' = everStored \cup DOMAIN db'.records
  /\ returned' = Outcome("initDB", 0, <<>>, TRUE, 0, <<>>)
  /\ roundTrip' = NoRoundTrip
  /\ UNCHANGED <<uiVars, initial, history>>

CallGetAllTasks ==
  /\ LET r == getAllTasks(db, TRUE) IN
       /\ db' = r.db
       /\ everStored' = everStored \cup DOMAIN r.db.records
       /\ returned' = Outcome("getAllTasks", 0, <<>>, r.ok, 0, r.value)
       /\ roundTrip' = IF r.ok /\ roundTrip.pc \in {1, 3}
                         THEN [roundTrip EXCEPT !.pc = roundTrip.pc + 1]
                         ELSE NoRoundTrip
  /\ UNCHANGED <<uiVars, initial, history>>

NextStore ==
  \/ \E t \in AnyTitles : CallAddTask(t)
  \/ \E id \in 1..MaxId, t \in AnyTitles : CallUpdateTask(id, t)
  \/ \E id \in 1..MaxId : CallDeleteTask(id)
  \/ CallGetAllTasks
  \/ CallInitDB

SpecStore == InitStore /\ [][NextStore]_vars

(***************************************************************************)
(* Properties of the store functions, checked under SpecStore.             *)
(***************************************************************************)
SeqToSet(s) == {s[i] : i \in 1..Len(s)}

Last(s) == s[Len(s)]

\* the step appends a fulfilled call of op to history
Completes(op) == Len(history') = Len(history) + 1 /\ Last(history').op = op

\* the net effect of one call on a set of {id, title} records
ApplyCall(S, c) ==
  CASE c.op = "addTask" -> S \cup {[id |-> c.id, title |-> c.title]}
    [] c.op = "updateTask" ->
         {r \in S : r.id # c.id} \cup {[id |-> c.id, title |-> c.title]}
    [] c.op = "deleteTask" -> {r \in S : r.id # c.id}

RECURSIVE Replay(_, _)
Replay(S, calls) ==
  IF calls = <<>> THEN S ELSE Replay(ApplyCall(S, Head(calls)), Tail(calls))

InitialRecords == {[id |-> k, title |-> initial[k]] : k \in DOMAIN initial}

\* C1: a getAllTasks after any sequence of completed addTask / updateTask /
\* deleteTask calls returns exactly the records obtained by applying those
\* calls in order to the initial store contents: none missing, none extra,
\* none twice.
C1_NetEffect ==
  (returned.op = "getAllTasks" /\ returned.ok) =>
    /\ SeqToSet(returned.all) = Replay(InitialRecords, history)
    /\ Len(returned.all) = Cardinality(Replay(InitialRecords, history))

C1_Witness ==
  /\ returned.op = "getAllTasks" /\ returned.ok
  /\ Len(history) >= 3
  /\ {history[i].op : i \in 1..Len(history)} = {"addTask", "updateTask", "deleteTask"}
  /\ Len(returned.all) >= 1

\* C2: addTask(title) returns an id that no record has had before (deleted
\* records included) and that is greater than every id stored before; the
\* store then holds exactly one record with that id, with the given title,
\* and every record that existed before the add is unchanged.
C2_AddFresh ==
  [][Completes("addTask") =>
       LET id == Last(history').id
           before == DbGetAll(db)
           after == getAllTasks(db', TRUE).value
       IN /\ returned'.key = id
          /\ id \notin everStored
          /\ \A k \in everStored : k < id
          /\ Cardinality({i \in 1..Len(after) : after[i].id = id}) = 1
          /\ [id |-> id, title |-> returned'.title] \in SeqToSet(after)
          /\ Len(after) = Len(before) + 1
          /\ \A i \in 1..Len(before) : before[i] \in SeqToSet(after)]_vars

C2_Witness ==
  /\ returned.op = "addTask" /\ returned.ok
  /\ everStored \ DOMAIN db.records # {}
  /\ \E k \in everStored \ DOMAIN db.records : k < returned.key
  /\ Cardinality(DOMAIN db.records) >= 2
  /\ db.records[returned.key] = returned.title

\* C3: updateTask({id, title}) on an id that exists changes only the title
\* of that record: same id, same number of records, every other record
\* identical before and after.
C3_UpdateFrame ==
  [][(Completes("updateTask") /\ Last(history').id \in DOMAIN db.records) =>
       LET id == Last(history').id
           before == DbGetAll(db)
           after == getAllTasks(db', TRUE).value
       IN /\ Len(after) = Len(before)
          /\ \A i \in 1..Len(before) :
               /\ after[i].id = before[i].id
               /\ before[i].id # id => after[i] = before[i]
               /\ before[i].id = id => after[i].title = returned'.title]_vars

C3_Witness ==
  /\ returned.op = "updateTask" /\ returned.ok
  /\ returned.id \in DOMAIN initial
  /\ initial[returned.id] # returned.title
  /\ \A i \in 1..Len(history) : history[i].op # "deleteTask"
  /\ Cardinality(DOMAIN db.records) >= 2
  /\ db.records[returned.id] = returned.title

\* the step is a call of deleteTask
DeleteCalled ==
  returned'.op = "deleteTask" /\ (returned' # returned \/ history' # history)

\* C4: deleteTask(id) raises no error whether or not a record has that id;
\* it removes that record when present and leaves every other record
\* unchanged, and it changes nothing when absent (so a second delete of the
\* same id changes nothing).
C4_DeleteIdempotent ==
  [][DeleteCalled =>
       LET id == returned'.id
           before == DbGetAll(db)
           after == getAllTasks(db', TRUE).value
       IN /\ returned'.ok
          /\ after = SelectSeq(before, LAMBDA r : r.id # id)
          /\ id \notin DOMAIN db.records => after = before]_vars

C4_Witness ==
  /\ returned.op = "deleteTask" /\ returned.ok
  /\ Len(history) >= 3
  /\ history[Len(history)] = history[Len(history) - 1]
  /\ history[Len(history) - 2].op = "addTask"
  /\ history[Len(history) - 2].id = returned.id
  /\ DOMAIN db.records # {}

\* C9: addTask(title) returning id, getAllTasks, updateTask({id, title2}),
\* getAllTasks: the last result has the record {id, title2} and, when title
\* differs from title2, no record {id, title}.
C9_RoundTrip ==
  roundTrip.pc = 4 =>
    /\ returned.op = "getAllTasks" /\ returned.ok
    /\ [id |-> roundTrip.id, title |-> roundTrip.title2] \in SeqToSet(returned.all)
    /\ roundTrip.title # roundTrip.title2 =>
         [id |-> roundTrip.id, title |-> roundTrip.title] \notin SeqToSet(returned.all)
    /\ Cardinality({i \in 1..Len(returned.all) : returned.all[i].id = roundTrip.id}) = 1

C9_Witness ==
  /\ roundTrip.pc = 4
  /\ roundTrip.title # roundTrip.title2
  /\ Len(returned.all) >= 2

(***************************************************************************)
(* Properties of the application, checked under Spec.                      *)
(***************************************************************************)
Mutations == {"add", "delete", "update"}

RECURSIVE Copies(_, _)
Copies(bag, hs) ==
  IF hs = {} THEN 0
  ELSE LET h == CHOOSE x \in hs : TRUE
       IN CopiesIn(h, bag) + Copies(bag, hs \ {h})

\* the handlers of a bag whose awaited mutation call has been fulfilled
Fulfilled(bag) ==
  Copies(bag, {h \in BagToSet(bag) : h.kind \in Mutations /\ h.phase = "done"})

\* the fetchTasks of a bag that have called getAllTasks and await it
Refreshing(bag) == CopiesIn(FetchCall, bag)

\* C5: a handler whose add, delete or update was fulfilled goes on only by
\* calling fetchTasks, and fetchTasks (so getAllTasks) is called by nothing
\* else after the mount; when a fetchTasks resumes, the list getAllTasks
\* gave it becomes the whole snapshot, whatever the snapshot was.
C5_RefreshAfterMutation ==
  [][/\ Fulfilled(pending') < Fulfilled(pending) =>
          Refreshing(pending') = Refreshing(pending) + 1
     /\ Refreshing(pending') > Refreshing(pending) =>
          /\ Fulfilled(pending') = Fulfilled(pending) - 1
          /\ lastEvent'.ev \in {"addResumed", "deleteResumed", "updateResumed"}
     /\ tasks' # tasks =>
          \E h \in Waiting("fetch", "done") :
            /\ tasks' = h.res
            /\ pending' = pending (-) SetToBag({h})
     /\ lastEvent'.ev = "setTasks" =>
          \E h \in Waiting("fetch", "done") : tasks' = h.res]_vars

C5_Witness ==
  /\ lastEvent.ev = "setTasks"
  /\ tasks = DbGetAll(db)
  /\ Len(tasks) = 1
  /\ Cardinality(everStored) = 2
  /\ pending = EmptyBag

\* C6: at most one rendered task shows the edit form, and after a click of
\* Edit on a task while another was being edited the clicked task is the one
\* that shows the form and every other task is in read view.
C6_SingleEdit ==
  /\ Cardinality(EditForms(tasks, editingTask)) <= 1
  /\ lastEvent.ev = "clickEditOther" =>
       /\ editingTask.id = lastEvent.id
       /\ \A i \in 1..Len(tasks) :
            ShowsForm(tasks, editingTask, i) <=> tasks[i].id = lastEvent.id
       /\ EditForms(tasks, editingTask) # {}

C6_Witness ==
  /\ lastEvent.ev = "clickEditOther"
  /\ Len(tasks) >= 2
  /\ editForm.mounted
  /\ Cardinality(EditForms(tasks, editingTask)) = 1

\* C7: the rendered list is the tasks of the snapshot whose title contains
\* the search term, case-insensitively, whatever the search term is.
C7_SearchFilter ==
  \A searchTerm \in SearchTerms : Rendered(tasks) = filteredTasks(tasks, searchTerm)

\* a title of blanks only (the empty title included)
IsBlank(s) == \A i \in 1..Len(s) : s[i] = " "

\* C8: a submit of the add form or of the edit form whose title is empty or
\* all blanks starts no store call and no refresh: the database, the
\* snapshot, the edit mode, both title buffers and the handlers in flight
\* are as before.
C8_BlankSubmit ==
  [][/\ (lastEvent'.ev \in {"addSubmit", "addSubmitBlank"} /\ IsBlank(addTitle)) =>
          UNCHANGED <<db, tasks, editingTask, addTitle, editForm, pending>>
     /\ (lastEvent'.ev \in {"editSubmit", "editSubmitBlank"} /\ IsBlank(editForm.title)) =>
          UNCHANGED <<db, tasks, editingTask, addTitle, editForm, pending>>
     /\ \A h \in BagToSet(pending') :
          h.kind \in {"add", "update"} => ~IsBlank(h.title)]_vars

C8_Witness ==
  /\ lastEvent.ev = "editSubmitBlank"
  /\ editForm.mounted
  /\ editForm.title = <<" ">>
  /\ addTitle = <<" ">>
  /\ TaskWithId(tasks, editingTask.id).title # editForm.title

\* C10: an id is never reused: once the record with id i has been deleted
\* (i has held a record and holds none), no step of the application puts a
\* record with id i into the store again.
C10_NeverReused ==
  [][\A i \in everStored :
       i \notin DOMAIN db.records => i \notin DOMAIN db'.records]_vars

(***************************************************************************)
(* Further properties: of the application under Spec (C11, C12, C15 to     *)
(* C19), of the application while no store call rejects under SpecAvail    *)
(* (C14, C20), and of initDB under SpecStore (C13).                        *)
(***************************************************************************)
\* the ids of a list of tasks are all different
DistinctIds(ts) == Cardinality(Ids(ts)) = Len(ts)

\* C11: each id maps to at most one task: the list the store returns never
\* has two records with the same id, neither has a list a fetchTasks holds,
\* and the snapshot TaskList renders with key={task.id} never has two tasks
\* with the same id.
C11_UniqueIds ==
  /\ DistinctIds(DbGetAll(db))
  /\ DistinctIds(tasks)
  /\ \A h \in Waiting("fetch", "done") : DistinctIds(h.res)

C11_Witness ==
  /\ lastEvent.ev = "setTasks"
  /\ Len(tasks) >= 2
  /\ tasks = DbGetAll(db)

\* C12: a click of Cancel persists nothing, whatever the edit form's buffer
\* holds: the store and the snapshot are unchanged, no handler is started (no
\* store call, no fetchTasks), the add form is untouched, and afterwards no
\* task is in edit mode and no list item shows the edit form.
C12_CancelFrame ==
  [][lastEvent'.ev = "clickCancel" =>
       /\ editForm.mounted
       /\ UNCHANGED <<db, tasks, pending, addTitle>>
       /\ editingTask' = NoTask
       /\ ~editForm'.mounted
       /\ EditForms(tasks', editingTask') = {}]_vars

C12_Witness ==
  /\ lastEvent.ev = "clickCancel"
  /\ lastEvent.id \in Ids(tasks)
  /\ tasks = DbGetAll(db)
  /\ editingTask = NoTask
  /\ pending = EmptyBag

\* C13: a call of initDB makes the "tasks" store (empty, generator at 1)
\* only when the database does not exist yet; on an existing database it
\* changes nothing: no record is added, changed or removed and the key
\* generator keeps its number.  A second initDB right after changes nothing,
\* and every operation gives the same result with one more initDB before it.
C13_InitDBIdempotent ==
  [][returned'.op = "initDB" =>
       /\ db.version = 0 => db' = [version |-> 1, records |-> NoRecords, keyGen |-> 1]
       /\ db.version = 1 => db' = db
       /\ db'.records = db.records
       /\ db'.keyGen = db.keyGen
       /\ InitDB(db') = db'
       /\ getAllTasks(InitDB(db'), TRUE) = getAllTasks(db', TRUE)
       /\ \A t \in AnyTitles : addTask(InitDB(db'), t, TRUE) = addTask(db', t, TRUE)
       /\ \A id \in 1..MaxId :
            /\ deleteTask(InitDB(db'), id, TRUE) = deleteTask(db', id, TRUE)
            /\ \A t \in AnyTitles :
                 updateTask(InitDB(db'), id, t, TRUE) = updateTask(db', id, t, TRUE)]_vars

C13_Witness ==
  /\ returned.op = "initDB"
  /\ DOMAIN db.records # {}
  /\ everStored \ DOMAIN db.records # {}
  /\ db.keyGen > 1
  /\ Len(history) >= 2

\* C14: whenever no handler and no fetchTasks is in flight, the snapshot
\* holds exactly the records of the store, in whatever order the results of
\* the getAllTasks calls arrived; stated where no storage call fails.
C14_QuiescentSnapshot ==
  pending = EmptyBag => tasks = DbGetAll(db)

\* C15: when getAllTasks rejects, fetchTasks stops before setTasks: the
\* snapshot is the one before, whole (not cleared, not partly replaced), and
\* editingTask and the edit form are unchanged; that fetchTasks is over.
C15_RefreshFailure ==
  [][lastEvent'.ev = "getAllTasksFailed" =>
       /\ tasks' = tasks
       /\ editingTask' = editingTask
       /\ editForm' = editForm
       /\ pending' = pending (-) SetToBag({FetchCall})
       /\ Refreshing(pending) >= 1]_vars

C15_Witness ==
  /\ lastEvent.ev = "getAllTasksFailed"
  /\ tasks # <<>>
  /\ tasks # DbGetAll(db)
  /\ editForm.mounted
  /\ editForm.title # TaskWithId(tasks, editingTask.id).title

\* C16: updateTask({id, title}) on an id that has no record is fulfilled and
\* leaves the store with a new record {id, title} beside the records it
\* had; and when the updateTask of an edit form's handleSubmit settles on an
\* id whose record has been deleted meanwhile, the record of that id is in
\* the store again, with the title of the form.
C16_SilentUpsert ==
  [][/\ \A id \in (1..MaxId) \ DOMAIN db.records : \A t \in AnyTitles :
          LET r == updateTask(db, id, t, TRUE) IN
            /\ r.ok
            /\ r.db.records = (id :> t) @@ db.records
            /\ DOMAIN r.db.records = DOMAIN db.records \cup {id}
     /\ lastEvent'.ev = "updateTaskDone" /\ lastEvent'.id \notin DOMAIN db.records =>
          \E h \in Waiting("update", "call") :
            /\ h.id = lastEvent'.id
            /\ h.id \in everStored
            /\ db'.records = (h.id :> h.title) @@ db.records
            /\ pending' = (pending (-) SetToBag({h}))
                            (+) SetToBag({[h EXCEPT !.phase = "done"]})]_vars

C16_Witness ==
  /\ lastEvent.ev = "updateTaskDone"
  /\ \E h \in Waiting("delete", "done") : h.id = lastEvent.id
  /\ initial = (1 :> <<"a">>)
  /\ db.records = (1 :> <<" ", "A">>)
  /\ tasks = <<[id |-> 1, title |-> <<"a">>]>>
  /\ editForm.mounted

\* the handlers of a bag that are about to make their mutation call
Calling(bag) ==
  Copies(bag, {h \in BagToSet(bag) : h.kind \in Mutations /\ h.phase = "call"})

\* C17: when the awaited addTask, updateTask or deleteTask rejects, the
\* handler is over: the store, the snapshot, the add form's buffer and the
\* edit-mode state are unchanged, no fetchTasks is started and nothing else
\* in flight is touched.  No call is retried: a handler that is to make its
\* mutation call appears only at a submit or a click of Delete, one per
\* event.
C17_FailureLocal ==
  [][/\ lastEvent'.ev \in {"addTaskFailed", "updateTaskFailed", "deleteTaskFailed"} =>
          /\ UNCHANGED <<db, tasks, addTitle, editingTask, editForm>>
          /\ Refreshing(pending') = Refreshing(pending)
          /\ Fulfilled(pending') = Fulfilled(pending)
          /\ Calling(pending') = Calling(pending) - 1
          /\ \E h \in BagToSet(pending) :
               /\ h.kind \in Mutations /\ h.phase = "call"
               /\ pending' = pending (-) SetToBag({h})
     /\ Calling(pending') > Calling(pending) =>
          /\ Calling(pending') = Calling(pending) + 1
          /\ lastEvent'.ev \in {"addSubmit", "editSubmit", "clickDelete"}]_vars

C17_Witness ==
  /\ lastEvent.ev = "addTaskFailed"
  /\ addTitle = <<" ", "A">>
  /\ tasks # <<>>
  /\ tasks = DbGetAll(db)
  /\ pending = EmptyBag

\* C18: with the store written only by the add and edit forms, every record
\* of the store has a title that is not empty after trim(); and the title is
\* stored as typed, not trimmed: right after an addTask or updateTask is
\* fulfilled the record it wrote has the very title its handler submitted.
C18_StoredTitles ==
  /\ \A k \in DOMAIN db.records : Trim(db.records[k]) # <<>>
  /\ lastEvent.ev = "addTaskDone" =>
       /\ lastEvent.id \in DOMAIN db.records
       /\ \E h \in Waiting("add", "done") : db.records[lastEvent.id] = h.title
  /\ lastEvent.ev = "updateTaskDone" =>
       /\ lastEvent.id \in DOMAIN db.records
       /\ \E h \in Waiting("update", "done") :
            h.id = lastEvent.id /\ db.records[lastEvent.id] = h.title

C18_Witness ==
  /\ lastEvent.ev = "addTaskDone"
  /\ db.records[lastEvent.id] = <<" ", "A">>
  /\ Trim(db.records[lastEvent.id]) = <<"A">>
  /\ addTitle = <<" ">>

\* C19: editingTask changes only at a click of Edit, to the clicked task, or
\* at a click of Cancel, to null; no submit, no settled store call, no
\* resumed handler and no refresh changes it.  When the handleSubmit of the
\* edit form resumes after its update, the form of that task stays mounted
\* with its buffer, and a refresh that still lists the task keeps it so.
C19_EditModeFrame ==
  [][/\ editingTask' # editingTask =>
          \/ /\ lastEvent'.ev \in {"clickEdit", "clickEditOther"}
             /\ \E i \in 1..Len(tasks) :
                  editingTask' = tasks[i] /\ lastEvent'.id = tasks[i].id
          \/ /\ lastEvent'.ev = "clickCancel"
             /\ editingTask' = NoTask
     /\ lastEvent'.ev = "updateResumed" /\ editForm.mounted =>
          /\ editForm' = editForm
          /\ EditForms(tasks', editingTask') = EditForms(tasks, editingTask)
     /\ lastEvent'.ev = "setTasks" /\ editForm.mounted
          /\ editingTask.id \in Ids(tasks') =>
          /\ editForm' = editForm
          /\ Cardinality(EditForms(tasks', editingTask')) = 1]_vars

C19_Witness ==
  /\ lastEvent.ev = "setTasks"
  /\ editingTask = [id |-> 1, title |-> <<"a">>]
  /\ tasks = <<[id |-> 1, title |-> <<" ", "A">>]>>
  /\ tasks = DbGetAll(db)
  /\ editForm = [mounted |-> TRUE, title |-> <<" ", "A">>]
  /\ pending = EmptyBag

\* C20: when a task is in edit mode (editingTask is not null), the snapshot
\* has a task with its id.
C20_EditingInSnapshot ==
  editingTask # NoTask => editingTask.id \in Ids(tasks)

(***************************************************************************)
(* The origin of the snapshot, under Spec (C21).                           *)
(***************************************************************************)
\* the fetchTasks of a bag that hold the list their getAllTasks read
Holding(bag) == {h \in BagToSet(bag) : h.kind = "fetch" /\ h.phase = "done"}

\* C21: the snapshot is the initial empty list or the contents the store
\* had at an earlier getAllTasks read, whole.  Step by step: at the mount
\* the snapshot is empty and no fetchTasks holds a list; the list a
\* fetchTasks comes to hold is the contents of the store at that read, and
\* it holds that list unchanged until it resumes; and the snapshot changes
\* only by becoming, whole, the list a resuming fetchTasks holds.
C21_SnapshotIsARead ==
  [][/\ lastEvent.ev = "mount" => tasks = <<>> /\ Holding(pending) = {}
     /\ \A g \in Holding(pending') :
          \/ CopiesIn(g, pending') <= CopiesIn(g, pending)
          \/ /\ lastEvent'.ev = "getAllTasksDone"
             /\ g.res = DbGetAll(db)
             /\ g.res = DbGetAll(db')
             /\ CopiesIn(g, pending') = CopiesIn(g, pending) + 1
     /\ tasks' # tasks \/ lastEvent'.ev = "setTasks" =>
          \E h \in Holding(pending) :
            /\ tasks' = h.res
            /\ pending' = pending (-) SetToBag({h})]_vars

C21_Witness ==
  /\ lastEvent.ev = "setTasks"
  /\ tasks = <<[id |-> 1, title |-> <<"a">>]>>
  /\ DbGetAll(db) = <<[id |-> 1, title |-> <<" ", "A">>],
                      [id |-> 2, title |-> <<" ", "A">>]>>
  /\ pending = EmptyBag

====
